---- MODULE Spec2Model ----
(***************************************************************************)
(* The data-shaping pipeline of PlanetaryPulse (data_handlers/*.py): the   *)
(* four get_<domain>_data handlers, their sources, the pandas operations   *)
(* they use (merge, ffill, sort_values, head) and their fallback tables.   *)
(*                                                                         *)
(* A table (DataFrame) is [columns, rows]; a row is [year, key, v] where   *)
(* key is the dimension (region / ecosystem_type, "" when the domain has   *)
(* none) and v maps each measurement column to a cell.  A cell is NaN or   *)
(* a value; a generated value is identified by where it was generated:     *)
(* the generating function, the source column, the year and key it was     *)
(* generated for, and the row index inside an externally delivered file.   *)
(* Numeric generation (noise, clamping) is modelled separately below.      *)
(***************************************************************************)
EXTENDS Integers, Sequences, FiniteSets, TLC

VARIABLES pc, call, result, gen, app

vars == <<pc, call, result, gen, app>>

(* ---------------------------- bounds ----------------------------------- *)
\* the year the clock shows when a call starts; it may roll over to Now + 1
\* between two clock reads of one call
Now == 2026
\* an externally delivered file holds at most this many data rows
MaxExtRows == 2
\* integer limits passed by callers range over -1..MaxLimit
MaxLimit == 5
\* a noise draw is a multiple of NoiseStep hundredths, at most MaxNoiseSteps
\* steps either side of zero
NoiseStep == 1200
MaxNoiseSteps == 4

(* ------------------------- cells and tables ---------------------------- *)
NaN == [nan |-> TRUE]

isna(c) == c = NaN

Val(g, c, y, k, n) == [gen |-> g, col |-> c, y |-> y, k |-> k, n |-> n]

\* (rows \o <<>> and v @@ <<>> are rows and v themselves, written out as a
\* tuple and as an explicit function)
DataFrame(cols, rows) == [columns |-> cols, rows |-> rows \o <<>>]

Row(y, k, v) == [year |-> y, key |-> k, v |-> v @@ <<>>]

\* the concatenation of a sequence of sequences
RECURSIVE Flatten(_)
Flatten(ss) ==
    IF Len(ss) = 0 THEN <<>>
    ELSE IF Len(ss) = 1 THEN ss[1] \o <<>>
    ELSE LET h == Len(ss) \div 2
         IN  Flatten(SubSeq(ss, 1, h)) \o Flatten(SubSeq(ss, h + 1, Len(ss)))

Min(a, b) == IF a < b THEN a ELSE b

Max(a, b) == IF a > b THEN a ELSE b

\* range(a, b + 1) as a sequence
YearRange(a, b) == [i \in 1..Max(0, b - a + 1) |-> a + i - 1]

\* a table generated for the years a..b, every column holding that year's value
Generated(g, cols, a, b) ==
    DataFrame(cols, [i \in 1..Max(0, b - a + 1) |->
        Row(a + i - 1, "", [c \in cols |-> Val(g, c, a + i - 1, "", 0)])])

(* ------------------------- pandas operations --------------------------- *)
\* contrast to merge_left_year: the right's values reach only the first left
\* row of each year, the other left rows of the year get nulls
merge_left_year_first(L, R) ==
    LET both == L.columns \cup R.columns
        join(l, r) == Row(l.year, l.key,
                          [c \in both |-> IF c \in L.columns THEN l.v[c] ELSE r.v[c]])
        alone(l) == Row(l.year, l.key,
                        [c \in both |-> IF c \in L.columns THEN l.v[c] ELSE NaN])
        expand(i) == LET l == L.rows[i]
                         m == SelectSeq(R.rows, LAMBDA r : r.year = l.year)
                     IN  IF m = <<>> \/ \E j \in 1..(i - 1) : L.rows[j].year = l.year
                         THEN <<alone(l)>>
                         ELSE [j \in 1..Len(m) |-> join(l, m[j])]
    IN  DataFrame(both, Flatten([i \in 1..Len(L.rows) |-> expand(i)]))

\* pd.merge(L, R, on='year', how='left'): the left rows in their order, each
\* once per right row of the same year (in the right's order), or once with
\* nulls in the right's columns when no right row has that year
merge_left_year(L, R) ==
    LET both == L.columns \cup R.columns
        join(l, r) == Row(l.year, l.key,
                          [c \in both |-> IF c \in L.columns THEN l.v[c] ELSE r.v[c]])
        alone(l) == Row(l.year, l.key,
                        [c \in both |-> IF c \in L.columns THEN l.v[c] ELSE NaN])
        expand(l) == LET m == SelectSeq(R.rows, LAMBDA r : r.year = l.year)
                     IN  IF m = <<>> THEN <<alone(l)>>
                         ELSE [j \in 1..Len(m) |-> join(l, m[j])]
    IN  DataFrame(both, Flatten([i \in 1..Len(L.rows) |-> expand(L.rows[i])]))

\* DataFrame.ffill(): in every column, top to bottom in the current row order,
\* a null takes the last non-null value above it
\* rows lo..hi filled, last holding the last non-null values above row lo
RECURSIVE ffill_rows(_, _, _, _)
ffill_rows(rows, lo, hi, last) ==
    IF lo > hi THEN <<>>
    ELSE IF lo = hi
    THEN <<Row(rows[lo].year, rows[lo].key,
               [c \in DOMAIN last |->
                   IF isna(rows[lo].v[c]) THEN last[c] ELSE rows[lo].v[c]])>>
    ELSE LET mid == (lo + hi) \div 2
             upper == ffill_rows(rows, lo, mid, last)
         IN  upper \o ffill_rows(rows, mid + 1, hi, upper[Len(upper)].v)

Reverse(seq) == [i \in 1..Len(seq) |-> seq[Len(seq) + 1 - i]]

\* contrast to ffill: DataFrame.bfill(), a null takes the next non-null value below
bfill(df) ==
    DataFrame(df.columns,
              Reverse(ffill_rows(Reverse(df.rows), 1, Len(df.rows),
                                 [c \in df.columns |-> NaN] @@ <<>>)))

ffill(df) ==
    DataFrame(df.columns,
              ffill_rows(df.rows, 1, Len(df.rows), [c \in df.columns |-> NaN] @@ <<>>))

\* the integers of S in descending order
DescSeq(S) ==
    IF S = {} THEN <<>>
    ELSE LET hi == CHOOSE x \in S : \A y \in S : y <= x
             lo == CHOOSE x \in S : \A y \in S : x <= y
         IN  SelectSeq([i \in 1..(hi - lo + 1) |-> hi + 1 - i], LAMBDA y : y \in S)

\* sort_values('year', ascending=False): rows of equal year keep their order
sort_values_year(df) ==
    LET ys == DescSeq({df.rows[i].year : i \in DOMAIN df.rows})
    IN  DataFrame(df.columns,
            Flatten([j \in 1..Len(ys) |->
                SelectSeq(df.rows, LAMBDA r : r.year = ys[j])]))

\* the limit argument: None, an integer, or any other object
NoLimit == [kind |-> "none", n |-> 0]

IntLimit(n) == [kind |-> "int", n |-> n]

BadLimit == [kind |-> "other", n |-> 0]

Limits == {NoLimit, BadLimit} \cup {IntLimit(n) : n \in -1..MaxLimit}

\* the outcome of a block of code: a table, or an exception
Ok(df) == [raised |-> FALSE, df |-> df]

Raise == [raised |-> TRUE, df |-> DataFrame({}, <<>>)]

\* contrast to iloc_upto: df.tail(n), the last rows instead of the first
iloc_upto_tail(df, n) ==
    LET len == Len(df.rows)
        stop == IF n >= 0 THEN Min(n, len) ELSE Max(len + n, 0)
    IN  DataFrame(df.columns, SubSeq(df.rows, len - stop + 1, len))

\* df.iloc[:n]: the first n rows, or all but the last -n rows when n < 0
iloc_upto(df, n) ==
    LET len == Len(df.rows)
        stop == IF n >= 0 THEN Min(n, len) ELSE Max(len + n, 0)
    IN  DataFrame(df.columns, SubSeq(df.rows, 1, stop))

\* "if limit is not None: df = df.head(limit)"; head raises TypeError on a
\* limit that is not an integer
head_if_limit(df, limit) ==
    IF limit.kind = "none" THEN Ok(df)
    ELSE IF limit.kind = "int" THEN Ok(iloc_upto(df, limit.n))
    ELSE Raise

(* ------------------------------ climate -------------------------------- *)
TempCols == {"temperature_anomaly"}

SeaCols == {"sea_level_rise_mm"}

IceCols == {"arctic_ice_extent_mil_sq_km", "antarctic_ice_extent_mil_sq_km",
            "total_ice_extent_mil_sq_km"}

\* the rows of an externally delivered file, in file order
External(g, cols, years) ==
    DataFrame(cols, [i \in 1..Len(years) |->
        Row(years[i], "", [c \in cols |-> Val(g, c, years[i], "", i)])])

FallbackTempSpan == 49

\* df.sort_values('year', ascending=False) of the 50 generated years; the
\* function is called without a limit by both its callers
create_fallback_temperature_data(cy) ==
    sort_values_year(Generated("create_fallback_temperature_data", TempCols,
                               cy - FallbackTempSpan, cy))

\* src.ok: the request and the parse succeeded and delivered src.years;
\* otherwise the except branch returns the fallback series
fetch_nasa_temperature_data(src, cy) ==
    IF src.ok THEN External("fetch_nasa_temperature_data", TempCols, src.years)
    ELSE create_fallback_temperature_data(cy)

\* None (modelled by ok = FALSE) when the request or the parse raised
fetch_noaa_sea_level_data(src) ==
    External("fetch_noaa_sea_level_data", SeaCols, src.years)

IceStartYear == 1979

fetch_ice_coverage_data(cy) ==
    Generated("fetch_ice_coverage_data", IceCols, IceStartYear, cy)

create_fallback_climate_data(limit, cy) ==
    LET g == "create_fallback_climate_data"
        df0 == create_fallback_temperature_data(cy)
        sea == Generated(g, SeaCols, cy - FallbackTempSpan, cy)
        ice == Generated(g, IceCols, cy - FallbackTempSpan, cy)
        df2 == merge_left_year(merge_left_year(df0, sea), ice)
    IN  head_if_limit(sort_values_year(df2), limit)

\* the clock read number i of a call: reads after the roll-over see Now + 1
ClockAt(c, i) == IF i > c.roll THEN Now + 1 ELSE Now

\* contrast to climate_try: a failed temperature fetch replaces the whole table
\* by create_fallback_climate_data
climate_try_whole_fallback(c) ==
    LET temp_data == fetch_nasa_temperature_data(c.temp, ClockAt(c, 1))
        df1 == IF c.sea.ok
               THEN merge_left_year(temp_data, fetch_noaa_sea_level_data(c.sea))
               ELSE temp_data
        df2 == IF c.ice
               THEN merge_left_year(df1, fetch_ice_coverage_data(ClockAt(c, 2)))
               ELSE df1
    IN  IF ~c.temp.ok THEN create_fallback_climate_data(c.limit, ClockAt(c, 1))
        ELSE head_if_limit(sort_values_year(ffill(df2)), c.limit)

climate_try(c) ==
    LET temp_data == fetch_nasa_temperature_data(c.temp, ClockAt(c, 1))
        df1 == IF c.sea.ok
               THEN merge_left_year(temp_data, fetch_noaa_sea_level_data(c.sea))
               ELSE temp_data
        df2 == IF c.ice
               THEN merge_left_year(df1, fetch_ice_coverage_data(ClockAt(c, 2)))
               ELSE df1
    IN  head_if_limit(sort_values_year(ffill(df2)), c.limit)

get_climate_data(c) ==
    LET r == climate_try(c)
    IN  IF r.raised THEN create_fallback_climate_data(c.limit, ClockAt(c, 3))
        ELSE r

(* ----------------------------- pollution ------------------------------- *)
Co2Cols == {"co2_level", "methane_level", "nitrous_oxide_level"}

AirCols == {"pm25_level", "ozone_level", "global_air_quality_index"}

PlasticCols == {"ocean_plastic_mil_tons", "microplastic_concentration",
                "chemical_pollution_index"}

Co2StartYear == 1960

AirStartYear == 1990

PlasticStartYear == 1990

fetch_co2_data(cy) == Generated("fetch_co2_data", Co2Cols, Co2StartYear, cy)

fetch_air_pollution_data(cy) ==
    Generated("fetch_air_pollution_data", AirCols, AirStartYear, cy)

fetch_plastic_pollution_data(cy) ==
    Generated("fetch_plastic_pollution_data", PlasticCols, PlasticStartYear, cy)

\* row.get(col, pd.NA) is non-null: the column exists and the cell is not NaN
notna(row, col) == col \in DOMAIN row.v /\ ~isna(row.v[col])

\* contrast to categorize_pollutants: the second air test appends its tag
\* without looking for one already there
categorize_pollutants_twice(row) ==
    LET air1 == notna(row, "co2_level") \/ notna(row, "methane_level")
                \/ notna(row, "nitrous_oxide_level")
        c1 == IF air1 THEN <<"Air Pollutants">> ELSE <<>>
        air2 == notna(row, "pm25_level") \/ notna(row, "ozone_level")
        c2 == IF air2 THEN Append(c1, "Air Pollutants") ELSE c1
        c3 == IF notna(row, "ocean_plastic_mil_tons")
                 \/ notna(row, "microplastic_concentration")
              THEN Append(c2, "Water Pollutants") ELSE c2
        c4 == IF notna(row, "chemical_pollution_index")
              THEN Append(c3, "Soil Pollutants") ELSE c3
    IN  IF c4 # <<>> THEN c4 ELSE <<"Unclassified">>

\* contrast to categorize_pollutants: the PM2.5 / ozone test is left out
categorize_pollutants_gases_only(row) ==
    LET air1 == notna(row, "co2_level") \/ notna(row, "methane_level")
                \/ notna(row, "nitrous_oxide_level")
        c1 == IF air1 THEN <<"Air Pollutants">> ELSE <<>>
        c3 == IF notna(row, "ocean_plastic_mil_tons")
                 \/ notna(row, "microplastic_concentration")
              THEN Append(c1, "Water Pollutants") ELSE c1
        c4 == IF notna(row, "chemical_pollution_index")
              THEN Append(c3, "Soil Pollutants") ELSE c3
    IN  IF c4 # <<>> THEN c4 ELSE <<"Unclassified">>

categorize_pollutants(row) ==
    LET air1 == notna(row, "co2_level") \/ notna(row, "methane_level")
                \/ notna(row, "nitrous_oxide_level")
        c1 == IF air1 THEN <<"Air Pollutants">> ELSE <<>>
        air2 == notna(row, "pm25_level") \/ notna(row, "ozone_level")
        c2 == IF air2 /\ \A i \in DOMAIN c1 : c1[i] # "Air Pollutants"
              THEN Append(c1, "Air Pollutants") ELSE c1
        c3 == IF notna(row, "ocean_plastic_mil_tons")
                 \/ notna(row, "microplastic_concentration")
              THEN Append(c2, "Water Pollutants") ELSE c2
        c4 == IF notna(row, "chemical_pollution_index")
              THEN Append(c3, "Soil Pollutants") ELSE c3
    IN  IF c4 # <<>> THEN c4 ELSE <<"Unclassified">>

\* pollution_df['pollutant_category'] = pollution_df.apply(categorize_pollutants, axis=1)
add_pollutant_category(df) ==
    LET cols == df.columns \cup {"pollutant_category"}
    IN  DataFrame(cols, [i \in 1..Len(df.rows) |->
            Row(df.rows[i].year, df.rows[i].key, [c \in cols |->
                IF c = "pollutant_category"
                THEN [cat |-> categorize_pollutants(df.rows[i])]
                ELSE df.rows[i].v[c]])])

FallbackPollutionStart == 1990

create_fallback_pollution_data(limit, cy) ==
    LET g == "create_fallback_pollution_data"
        late == (AirCols \cup PlasticCols) \cup {"methane_level", "nitrous_oxide_level"}
        cols == (Co2Cols \cup AirCols \cup PlasticCols) \cup {"pollutant_category"}
        cell(c, y) ==
            IF c = "pollutant_category"
            THEN [cat |-> IF y >= FallbackPollutionStart
                          THEN <<"Air Pollutants", "Water Pollutants", "Soil Pollutants">>
                          ELSE <<"Air Pollutants">>]
            ELSE IF c \in late /\ y < FallbackPollutionStart THEN NaN
            ELSE Val(g, c, y, "", 0)
        years == YearRange(Co2StartYear, cy)
        df == DataFrame(cols, [i \in 1..Len(years) |->
                  Row(years[i], "", [c \in cols |-> cell(c, years[i])])])
    IN  head_if_limit(sort_values_year(df), limit)

\* contrast to pollution_try: on the air base the plastic table is not joined
pollution_try_air_alone(c) ==
    LET co2_data == fetch_co2_data(ClockAt(c, 1))
        air_data == fetch_air_pollution_data(ClockAt(c, 2))
        plastic_data == fetch_plastic_pollution_data(ClockAt(c, 3))
        with_plastic(df) == IF c.plastic THEN merge_left_year(df, plastic_data) ELSE df
        pollution_df ==
            IF c.co2
            THEN with_plastic(IF c.air THEN merge_left_year(co2_data, air_data)
                              ELSE co2_data)
            ELSE IF c.air THEN air_data
            ELSE plastic_data
        sorted == sort_values_year(ffill(pollution_df))
    IN  IF ~c.co2 /\ ~c.air /\ ~c.plastic
        THEN create_fallback_pollution_data(c.limit, ClockAt(c, 4))
        ELSE head_if_limit(add_pollutant_category(sorted), c.limit)

\* the body of the try block; when all three sources are None it returns the
\* fallback table itself
pollution_try(c) ==
    LET co2_data == fetch_co2_data(ClockAt(c, 1))
        air_data == fetch_air_pollution_data(ClockAt(c, 2))
        plastic_data == fetch_plastic_pollution_data(ClockAt(c, 3))
        with_plastic(df) == IF c.plastic THEN merge_left_year(df, plastic_data) ELSE df
        pollution_df ==
            IF c.co2
            THEN with_plastic(IF c.air THEN merge_left_year(co2_data, air_data)
                              ELSE co2_data)
            ELSE IF c.air THEN with_plastic(air_data)
            ELSE plastic_data
        sorted == sort_values_year(ffill(pollution_df))
    IN  IF ~c.co2 /\ ~c.air /\ ~c.plastic
        THEN create_fallback_pollution_data(c.limit, ClockAt(c, 4))
        ELSE head_if_limit(add_pollutant_category(sorted), c.limit)

get_pollution_data(c) ==
    LET r == pollution_try(c)
    IN  IF r.raised THEN create_fallback_pollution_data(c.limit, ClockAt(c, 4))
        ELSE r

(* ---------------------------- biodiversity ----------------------------- *)
regions == <<"Africa", "Asia", "Europe", "North America", "Oceania", "South America">>

\* Python's order of the dimension names that occur (str comparison)
Alphabetical == <<"Africa", "Asia", "Coral Reefs", "Europe", "Forests", "Grasslands",
                  "North America", "Oceania", "South America", "Wetlands">>

\* the integers of S in ascending order
AscSeq(S) ==
    IF S = {} THEN <<>>
    ELSE LET hi == CHOOSE x \in S : \A y \in S : y <= x
             lo == CHOOSE x \in S : \A y \in S : x <= y
         IN  SelectSeq([i \in 1..(hi - lo + 1) |-> lo - 1 + i], LAMBDA y : y \in S)

\* the names of S in ascending str order
AscKeys(S) == SelectSeq(Alphabetical, LAMBDA k : k \in S)

EndangeredCols == {"endangered_species_count", "extinction_rate",
                   "conservation_status_index"}

HabitatCols == {"remaining_habitat_mil_hectares", "annual_habitat_loss_mil_hectares",
                "habitat_fragmentation_index"}

SpeciesCols == {"new_species_discovered", "cumulative_known_species",
                "estimated_total_species"}

BioStartYear == 2000

\* contrast to GeneratedByKey: range(a, b), the last year left out
GeneratedByKeyExclusive(g, cols, keys, a, b) ==
    LET span == Max(0, b - a)
    IN  DataFrame(cols, Flatten([k \in 1..Len(keys) |-> [i \in 1..span |->
            Row(a + i - 1, keys[k],
                [c \in cols |-> Val(g, c, a + i - 1, keys[k], 0)])]]))

\* "for region in regions: for year in years": one row per pair, region-major
GeneratedByKey(g, cols, keys, a, b) ==
    LET span == Max(0, b - a + 1)
    IN  DataFrame(cols, Flatten([k \in 1..Len(keys) |-> [i \in 1..span |->
            Row(a + i - 1, keys[k],
                [c \in cols |-> Val(g, c, a + i - 1, keys[k], 0)])]]))

\* contrast to fetch_iucn_endangered_data: the years start one year early
fetch_iucn_endangered_data_early(cy) ==
    GeneratedByKey("fetch_iucn_endangered_data", EndangeredCols, regions,
                   BioStartYear - 1, cy)

fetch_iucn_endangered_data(cy) ==
    GeneratedByKey("fetch_iucn_endangered_data", EndangeredCols, regions,
                   BioStartYear, cy)

fetch_habitat_loss_data(cy) ==
    GeneratedByKey("fetch_habitat_loss_data", HabitatCols, regions, BioStartYear, cy)

fetch_gbif_species_data(cy) ==
    Generated("fetch_gbif_species_data", SpeciesCols, BioStartYear, cy)

KeyOf(r) == <<r.year, r.key>>

\* the distinct (year, key) pairs of a row sequence, in order of first appearance
FirstKeys(rows) ==
    LET pos == [i \in 1..Len(rows) |-> i] \o <<>>
        \* the positions of the rows of year y, ascending
        Py == [y \in {rows[i].year : i \in DOMAIN rows} |->
                  SelectSeq(pos, LAMBDA i : rows[i].year = y)] @@ <<>>
        first(i) == LET same == Py[rows[i].year]
                    IN  \A m \in DOMAIN same :
                            same[m] < i => rows[same[m]].key # rows[i].key
        idx == SelectSeq(pos, first)
    IN  [n \in 1..Len(idx) |-> KeyOf(rows[idx[n]])] \o <<>>

\* contrast to merge_outer_year_key: pd.concat([L, R]), the rows of both frames
\* one after the other, nulls in the columns a row's frame does not have
concat_frames(L, R, lexsorted) ==
    LET both == L.columns \cup R.columns
        widen(df) == [i \in 1..Len(df.rows) |->
            Row(df.rows[i].year, df.rows[i].key,
                [c \in both |-> IF c \in df.columns THEN df.rows[i].v[c] ELSE NaN])]
    IN  DataFrame(both, widen(L) \o widen(R))

\* pd.merge(L, R, on=['year', 'region'], how='outer'): one row per pair of rows
\* with equal key, and the rows without a partner with nulls.  The row order
\* depends on the pandas release: key-sorted (lexsorted, pandas >= 2.2), or the
\* left keys in order of appearance followed by the keys only the right has
merge_outer_year_key(L, R, lexsorted) ==
    LET both == L.columns \cup R.columns
        lk == FirstKeys(L.rows)
        rk == FirstKeys(R.rows)
        lset == {lk[i] : i \in DOMAIN lk}
        all == lset \cup {rk[i] : i \in DOMAIN rk}
        years == {k[1] : k \in all}
        ys == AscSeq(years)
        ns == AscKeys({k[2] : k \in all})
        sortedKeys == SelectSeq(
            Flatten([i \in 1..Len(ys) |-> [j \in 1..Len(ns) |-> <<ys[i], ns[j]>>]]),
            LAMBDA k : k \in all)
        order == IF lexsorted THEN sortedKeys
                 ELSE lk \o SelectSeq(rk, LAMBDA k : k \notin lset)
        cell(l, r, c) == IF c \in L.columns
                         THEN (IF l = <<>> THEN NaN ELSE l[1].v[c])
                         ELSE (IF r = <<>> THEN NaN ELSE r[1].v[c])
        Ly == [y \in years |-> SelectSeq(L.rows, LAMBDA x : x.year = y)] @@ <<>>
        Ry == [y \in years |-> SelectSeq(R.rows, LAMBDA x : x.year = y)] @@ <<>>
        group(k) ==
            LET ls == SelectSeq(Ly[k[1]], LAMBDA x : x.key = k[2])
                rs == SelectSeq(Ry[k[1]], LAMBDA x : x.key = k[2])
                lopt == IF ls = <<>> THEN <<<<>>>> ELSE [i \in 1..Len(ls) |-> <<ls[i]>>]
                ropt == IF rs = <<>> THEN <<<<>>>> ELSE [i \in 1..Len(rs) |-> <<rs[i]>>]
            IN  Flatten([i \in 1..Len(lopt) |-> [j \in 1..Len(ropt) |->
                    Row(k[1], k[2], [c \in both |-> cell(lopt[i], ropt[j], c)])]])
    IN  DataFrame(both, Flatten([n \in 1..Len(order) |-> group(order[n])]))

\* contrast to sort_values_year_key: sorted by year only, the dimension forgotten
sort_values_year_only(df) == sort_values_year(df)

\* sort_values(['year', <dimension>], ascending=[False, True])
sort_values_year_key(df) ==
    LET ys == DescSeq({df.rows[i].year : i \in DOMAIN df.rows})
        ns == AscKeys({df.rows[i].key : i \in DOMAIN df.rows})
        of_year(y) == SelectSeq(df.rows, LAMBDA r : r.year = y)
        by_key(rs) == Flatten([j \in 1..Len(ns) |->
                          SelectSeq(rs, LAMBDA r : r.key = ns[j])])
    IN  DataFrame(df.columns, Flatten([i \in 1..Len(ys) |-> by_key(of_year(ys[i]))]))

create_fallback_biodiversity_data(limit, cy) ==
    head_if_limit(
        sort_values_year_key(
            GeneratedByKey("create_fallback_biodiversity_data",
                           EndangeredCols \cup HabitatCols, regions, BioStartYear, cy)),
        limit)

biodiversity_try(c) ==
    LET endangered_data == fetch_iucn_endangered_data(ClockAt(c, 1))
        habitat_data == fetch_habitat_loss_data(ClockAt(c, 2))
        species_data == fetch_gbif_species_data(ClockAt(c, 3))
        merged == merge_outer_year_key(endangered_data, habitat_data, c.lexsorted)
        biodiversity_df ==
            IF c.endangered /\ c.habitat
            THEN (IF c.species THEN merge_left_year(merged, species_data) ELSE merged)
            ELSE IF c.endangered THEN endangered_data
            ELSE habitat_data
    IN  IF ~c.endangered /\ ~c.habitat
        THEN create_fallback_biodiversity_data(c.limit, ClockAt(c, 4))
        ELSE head_if_limit(sort_values_year_key(ffill(biodiversity_df)), c.limit)

get_biodiversity_data(c) ==
    LET r == biodiversity_try(c)
    IN  IF r.raised THEN create_fallback_biodiversity_data(c.limit, ClockAt(c, 4))
        ELSE r

(* ----------------------------- ecosystem ------------------------------- *)
ForestCols == {"forest_area_mil_hectares", "annual_change_percent",
               "forest_health_index", "forest_coverage_percent",
               "primary_forest_percent"}

CoralCols == {"reef_area_mil_hectares", "annual_change_percent", "reef_health_index",
              "coral_cover_percent", "bleaching_percent"}

WetlandCols == {"wetland_area_mil_hectares", "annual_change_percent",
                "wetland_health_index"}

SoilCols == {"grassland_area_mil_hectares", "annual_change_percent",
             "soil_health_index", "soil_carbon_content", "desertification_risk_index"}

EcoStartYear == 1990

fetch_forest_coverage_data(cy) ==
    Generated("fetch_forest_coverage_data", ForestCols, EcoStartYear, cy)

fetch_coral_reef_data(cy) ==
    Generated("fetch_coral_reef_data", CoralCols, EcoStartYear, cy)

fetch_wetland_data(cy) == Generated("fetch_wetland_data", WetlandCols, EcoStartYear, cy)

fetch_soil_health_data(cy) ==
    Generated("fetch_soil_health_data", SoilCols, EcoStartYear, cy)

EcoCols == {"area_mil_hectares", "annual_change_percent", "health_index",
            "forest_coverage_percent", "primary_forest_percent", "coral_cover_percent",
            "bleaching_percent", "wetland_area_mil_hectares", "soil_carbon_content",
            "desertification_risk_index"}

\* for each ecosystem type: the source column behind each column of its row
\* (the columns not listed are np.nan)
EcoFields ==
    [Forests |->
        [area_mil_hectares |-> "forest_area_mil_hectares",
         annual_change_percent |-> "annual_change_percent",
         health_index |-> "forest_health_index",
         forest_coverage_percent |-> "forest_coverage_percent",
         primary_forest_percent |-> "primary_forest_percent"],
     CoralReefs |->
        [area_mil_hectares |-> "reef_area_mil_hectares",
         annual_change_percent |-> "annual_change_percent",
         health_index |-> "reef_health_index",
         coral_cover_percent |-> "coral_cover_percent",
         bleaching_percent |-> "bleaching_percent"],
     Wetlands |->
        [area_mil_hectares |-> "wetland_area_mil_hectares",
         annual_change_percent |-> "annual_change_percent",
         health_index |-> "wetland_health_index",
         wetland_area_mil_hectares |-> "wetland_area_mil_hectares"],
     Grasslands |->
        [area_mil_hectares |-> "grassland_area_mil_hectares",
         annual_change_percent |-> "annual_change_percent",
         health_index |-> "soil_health_index",
         soil_carbon_content |-> "soil_carbon_content",
         desertification_risk_index |-> "desertification_risk_index"]]

\* df[df['year'] == year].iloc[0], or None: <<row>> or <<>>
first_row_of_year(df, year) ==
    LET m == SelectSeq(df.rows, LAMBDA r : r.year = year)
    IN  IF m = <<>> THEN <<>> ELSE <<m[1]>>

\* contrast to ecosystem_row: without a source row, a row of nulls is appended
ecosystem_row_or_nulls(year, type, fields, src) ==
    IF src = <<>> THEN <<Row(year, type, [c \in EcoCols |-> NaN])>>
    ELSE <<Row(year, type, [c \in EcoCols |->
               IF c \in DOMAIN fields THEN src[1].v[fields[c]] ELSE NaN])>>

\* the dictionary appended to data_rows for one ecosystem type, from the
\* source row src (<<>> when there is none: nothing is appended)
ecosystem_row(year, type, fields, src) ==
    IF src = <<>> THEN <<>>
    ELSE <<Row(year, type, [c \in EcoCols |->
               IF c \in DOMAIN fields THEN src[1].v[fields[c]] ELSE NaN])>>

\* years in order of first appearance: Series.unique()
unique_years(df) ==
    LET idx == SelectSeq([i \in 1..Len(df.rows) |-> i],
                   LAMBDA i : \A j \in 1..(i - 1) : df.rows[j].year # df.rows[i].year)
    IN  [n \in 1..Len(idx) |-> df.rows[idx[n]].year]

create_fallback_ecosystem_data(limit, cy) ==
    LET g == "create_fallback_ecosystem_data"
        years == YearRange(EcoStartYear, cy)
        block(type, fields) ==
            [i \in 1..Len(years) |->
                Row(years[i], type, [c \in EcoCols |->
                    IF c \in DOMAIN fields THEN Val(g, fields[c], years[i], type, 0)
                    ELSE NaN])]
        df == DataFrame(EcoCols,
                  block("Forests", EcoFields.Forests)
                  \o block("Coral Reefs", EcoFields.CoralReefs)
                  \o block("Wetlands", EcoFields.Wetlands)
                  \o block("Grasslands", EcoFields.Grasslands))
    IN  head_if_limit(sort_values_year_key(df), limit)

\* contrast to ecosystem_try: the assembled rows are forward-filled before
\* they are sorted
ecosystem_try_ffill(c) ==
    LET forest_data == fetch_forest_coverage_data(ClockAt(c, 1))
        coral_data == fetch_coral_reef_data(ClockAt(c, 2))
        wetland_data == fetch_wetland_data(ClockAt(c, 3))
        soil_data == fetch_soil_health_data(ClockAt(c, 4))
        years == unique_years(forest_data)
        rows_of(year) ==
            ecosystem_row(year, "Forests", EcoFields.Forests,
                          first_row_of_year(forest_data, year))
            \o ecosystem_row(year, "Coral Reefs", EcoFields.CoralReefs,
                   IF c.coral THEN first_row_of_year(coral_data, year) ELSE <<>>)
            \o ecosystem_row(year, "Wetlands", EcoFields.Wetlands,
                   IF c.wetland THEN first_row_of_year(wetland_data, year) ELSE <<>>)
            \o ecosystem_row(year, "Grasslands", EcoFields.Grasslands,
                   IF c.soil THEN first_row_of_year(soil_data, year) ELSE <<>>)
        data_rows == Flatten([i \in 1..Len(years) |-> rows_of(years[i])])
    IN  IF ~c.forest THEN create_fallback_ecosystem_data(c.limit, ClockAt(c, 5))
        ELSE IF data_rows = <<>> THEN Raise
        ELSE head_if_limit(sort_values_year_key(ffill(DataFrame(EcoCols, data_rows))),
                           c.limit)

ecosystem_try(c) ==
    LET forest_data == fetch_forest_coverage_data(ClockAt(c, 1))
        coral_data == fetch_coral_reef_data(ClockAt(c, 2))
        wetland_data == fetch_wetland_data(ClockAt(c, 3))
        soil_data == fetch_soil_health_data(ClockAt(c, 4))
        years == unique_years(forest_data)
        rows_of(year) ==
            ecosystem_row(year, "Forests", EcoFields.Forests,
                          first_row_of_year(forest_data, year))
            \o ecosystem_row(year, "Coral Reefs", EcoFields.CoralReefs,
                   IF c.coral THEN first_row_of_year(coral_data, year) ELSE <<>>)
            \o ecosystem_row(year, "Wetlands", EcoFields.Wetlands,
                   IF c.wetland THEN first_row_of_year(wetland_data, year) ELSE <<>>)
            \o ecosystem_row(year, "Grasslands", EcoFields.Grasslands,
                   IF c.soil THEN first_row_of_year(soil_data, year) ELSE <<>>)
        data_rows == Flatten([i \in 1..Len(years) |-> rows_of(years[i])])
    IN  IF ~c.forest THEN create_fallback_ecosystem_data(c.limit, ClockAt(c, 5))
        ELSE IF data_rows = <<>> THEN Raise  \* sort_values on a frame without columns
        ELSE head_if_limit(sort_values_year_key(DataFrame(EcoCols, data_rows)), c.limit)

get_ecosystem_data(c) ==
    LET r == ecosystem_try(c)
    IN  IF r.raised THEN create_fallback_ecosystem_data(c.limit, ClockAt(c, 5))
        ELSE r

(* --------------------------- the state machine ------------------------- *)
\* the years an externally delivered file may list, in any order, repeated or not
ExtYears == {Now - 1, Now}

ExtFiles == UNION {[1..n -> ExtYears] : n \in 0..MaxExtRows}

ExtSources == {[ok |-> FALSE, years |-> <<>>]}
              \cup {[ok |-> TRUE, years |-> f] : f \in ExtFiles}

NoCall == [domain |-> "none"]

NoResult == Raise

\* the browser session when the script is first run: the sidebar radio shows
\* its first option, st.session_state has no entry, nothing is rendered yet.
\* shown and headline belong to the finished run and are empty while a run
\* is pending
AppStart ==
    [radio |-> "Overview", session_state_page |-> "", run |-> "pending",
     cause |-> "start", shown |-> "", headline |-> <<>>]

Init ==
    /\ pc = "idle"
    /\ call = NoCall
    /\ result = NoResult
    /\ gen = [fn |-> "none"]
    /\ app = AppStart

CallClimate ==
    /\ pc = "idle"
    /\ \E t \in ExtSources, s \in ExtSources, i \in BOOLEAN,
          l \in Limits, roll \in 0..3 :
          /\ call' = [domain |-> "climate", temp |-> t, sea |-> s, ice |-> i,
                      limit |-> l, roll |-> roll]
          /\ result' = get_climate_data(call')
    /\ pc' = "returned"
    /\ UNCHANGED <<gen, app>>

\* the caller has used the table; nothing is kept between calls
Return ==
    /\ pc = "returned"
    /\ pc' = "idle"
    /\ call' = NoCall
    /\ result' = NoResult
    /\ UNCHANGED <<gen, app>>

CallPollution ==
    /\ pc = "idle"
    /\ \E co2 \in BOOLEAN, air \in BOOLEAN, plastic \in BOOLEAN,
          l \in Limits, roll \in 0..4 :
          /\ call' = [domain |-> "pollution", co2 |-> co2, air |-> air,
                      plastic |-> plastic, limit |-> l, roll |-> roll]
          /\ result' = get_pollution_data(call')
    /\ pc' = "returned"
    /\ UNCHANGED <<gen, app>>

CallBiodiversity ==
    /\ pc = "idle"
    /\ \E e \in BOOLEAN, h \in BOOLEAN, s \in BOOLEAN, lex \in BOOLEAN,
          l \in Limits, roll \in 0..4 :
          /\ call' = [domain |-> "biodiversity", endangered |-> e, habitat |-> h,
                      species |-> s, lexsorted |-> lex, limit |-> l, roll |-> roll]
          /\ result' = get_biodiversity_data(call')
    /\ pc' = "returned"
    /\ UNCHANGED <<gen, app>>

CallEcosystem ==
    /\ pc = "idle"
    /\ \E f \in BOOLEAN, co \in BOOLEAN, w \in BOOLEAN, so \in BOOLEAN,
          l \in Limits, roll \in 0..5 :
          /\ call' = [domain |-> "ecosystem", forest |-> f, coral |-> co,
                      wetland |-> w, soil |-> so, limit |-> l, roll |-> roll]
          /\ result' = get_ecosystem_data(call')
    /\ pc' = "returned"
    /\ UNCHANGED <<gen, app>>

Next ==
    \/ CallEcosystem
    \/ CallBiodiversity
    \/ CallPollution
    \/ CallClimate
    \/ Return

Spec == Init /\ [][Next]_vars

(* ------------------- index fields of the generators -------------------- *)
(* One step generates one row of one generator.  Numbers are in hundredths *)
(* (70 - years_since_2000 * 0.5 is 7000 - years_since_2000 * 50), so the   *)
(* arithmetic of the source is exact on integers; a noise draw is the      *)
(* value np.random.normal returned, in hundredths.                         *)
NoiseDraws == {k * NoiseStep : k \in -MaxNoiseSteps..MaxNoiseSteps}

\* biodiversity.py: max(0, min(100, 70 - years_since_2000 * 0.5 + noise))
iucn_conservation_status(years_since_2000, noise) ==
    Max(0, Min(10000, 7000 - years_since_2000 * 50 + noise))

\* biodiversity.py: min(100, 40 + years_since_2000 * 0.8 + noise)
habitat_fragmentation(years_since_2000, noise) ==
    Min(10000, 4000 + years_since_2000 * 80 + noise)

fallback_conservation_status(years_since_2000, noise) ==
    Max(0, Min(10000, 7000 - years_since_2000 * 50 + noise))

fallback_fragmentation(years_since_2000, noise) ==
    Min(10000, 4000 + years_since_2000 * 80 + noise)

\* ecosystem.py: max(0, min(100, 75 - (year - 1990) * 0.25 + noise))
forest_health_index(year, noise) ==
    Max(0, Min(10000, 7500 - (year - EcoStartYear) * 25 + noise))

reef_health_index(year, noise) ==
    Max(0, Min(10000, 8000 - (year - EcoStartYear) * 50 + noise))

wetland_health_index(year, noise) ==
    Max(0, Min(10000, 7000 - (year - EcoStartYear) * 30 + noise))

soil_health_index(year, noise) ==
    Max(0, Min(10000, 6500 - (year - EcoStartYear) * 20 + noise))

\* ecosystem.py: min(100, 35 + (year - 1990) * 0.4 + noise)
soil_desertification(year, noise) ==
    Min(10000, 3500 + (year - EcoStartYear) * 40 + noise)

fallback_forest_health(year, noise) ==
    Max(0, Min(10000, 7500 - (year - EcoStartYear) * 25 + noise))

fallback_reef_health(year, noise) ==
    Max(0, Min(10000, 8000 - (year - EcoStartYear) * 50 + noise))

fallback_wetland_health(year, noise) ==
    Max(0, Min(10000, 7000 - (year - EcoStartYear) * 30 + noise))

fallback_soil_health(year, noise) ==
    Max(0, Min(10000, 6500 - (year - EcoStartYear) * 20 + noise))

fallback_desertification(year, noise) ==
    Min(10000, 3500 + (year - EcoStartYear) * 40 + noise)

\* pollution.py: max(0, min(100, 30 + years_since_1990 * 0.6 + noise))
plastic_chemical_value(years_since_1990, noise) ==
    Max(0, Min(10000, 3000 + years_since_1990 * 60 + noise))

fallback_chemical_value(years_since_1990, noise) ==
    Max(0, Min(10000, 3000 + years_since_1990 * 60 + noise))

NoRow == [fn |-> "none"]

\* the index fields of a generated row (ix: column -> hundredths)
GenRow(fn, year, key, ix) == [fn |-> fn, year |-> year, key |-> key, ix |-> ix]

RegionSet == {regions[i] : i \in DOMAIN regions}

GenIucnRow ==
    /\ gen = NoRow
    /\ \E region \in RegionSet, year \in BioStartYear..Now, n \in NoiseDraws :
          gen' = GenRow("fetch_iucn_endangered_data", year, region,
                    [conservation_status_index |->
                        iucn_conservation_status(year - BioStartYear, n)])
    /\ UNCHANGED <<pc, call, result, app>>

GenHabitatRow ==
    /\ gen = NoRow
    /\ \E region \in RegionSet, year \in BioStartYear..Now, n \in NoiseDraws :
          gen' = GenRow("fetch_habitat_loss_data", year, region,
                    [habitat_fragmentation_index |->
                        habitat_fragmentation(year - BioStartYear, n)])
    /\ UNCHANGED <<pc, call, result, app>>

GenFallbackBiodiversityRow ==
    /\ gen = NoRow
    /\ \E region \in RegionSet, year \in BioStartYear..Now,
          n1 \in NoiseDraws, n2 \in NoiseDraws :
          gen' = GenRow("create_fallback_biodiversity_data", year, region,
                    [conservation_status_index |->
                        fallback_conservation_status(year - BioStartYear, n1),
                     habitat_fragmentation_index |->
                        fallback_fragmentation(year - BioStartYear, n2)])
    /\ UNCHANGED <<pc, call, result, app>>

GenForestRow ==
    /\ gen = NoRow
    /\ \E year \in EcoStartYear..Now, n \in NoiseDraws :
          gen' = GenRow("fetch_forest_coverage_data", year, "Forests",
                    [health_index |-> forest_health_index(year, n)])
    /\ UNCHANGED <<pc, call, result, app>>

GenCoralRow ==
    /\ gen = NoRow
    /\ \E year \in EcoStartYear..Now, n \in NoiseDraws :
          gen' = GenRow("fetch_coral_reef_data", year, "Coral Reefs",
                    [health_index |-> reef_health_index(year, n)])
    /\ UNCHANGED <<pc, call, result, app>>

GenWetlandRow ==
    /\ gen = NoRow
    /\ \E year \in EcoStartYear..Now, n \in NoiseDraws :
          gen' = GenRow("fetch_wetland_data", year, "Wetlands",
                    [health_index |-> wetland_health_index(year, n)])
    /\ UNCHANGED <<pc, call, result, app>>

GenSoilRow ==
    /\ gen = NoRow
    /\ \E year \in EcoStartYear..Now, n1 \in NoiseDraws, n2 \in NoiseDraws :
          gen' = GenRow("fetch_soil_health_data", year, "Grasslands",
                    [health_index |-> soil_health_index(year, n1),
                     desertification_risk_index |-> soil_desertification(year, n2)])
    /\ UNCHANGED <<pc, call, result, app>>

\* one row of one of the four loops of create_fallback_ecosystem_data
GenFallbackEcosystemRow ==
    /\ gen = NoRow
    /\ \E year \in EcoStartYear..Now, n1 \in NoiseDraws, n2 \in NoiseDraws :
          \/ gen' = GenRow("create_fallback_ecosystem_data", year, "Forests",
                        [health_index |-> fallback_forest_health(year, n1)])
          \/ gen' = GenRow("create_fallback_ecosystem_data", year, "Coral Reefs",
                        [health_index |-> fallback_reef_health(year, n1)])
          \/ gen' = GenRow("create_fallback_ecosystem_data", year, "Wetlands",
                        [health_index |-> fallback_wetland_health(year, n1)])
          \/ gen' = GenRow("create_fallback_ecosystem_data", year, "Grasslands",
                        [health_index |-> fallback_soil_health(year, n1),
                         desertification_risk_index |->
                            fallback_desertification(year, n2)])
    /\ UNCHANGED <<pc, call, result, app>>

GenPlasticRow ==
    /\ gen = NoRow
    /\ \E year \in PlasticStartYear..Now, n \in NoiseDraws :
          gen' = GenRow("fetch_plastic_pollution_data", year, "",
                    [chemical_pollution_index |->
                        plastic_chemical_value(year - PlasticStartYear, n)])
    /\ UNCHANGED <<pc, call, result, app>>

\* before 1990 the fallback row holds np.nan: no index value
GenFallbackPollutionRow ==
    /\ gen = NoRow
    /\ \E year \in Co2StartYear..Now, n \in NoiseDraws :
          gen' = GenRow("create_fallback_pollution_data", year, "",
                    IF year >= FallbackPollutionStart
                    THEN [chemical_pollution_index |->
                            fallback_chemical_value(year - FallbackPollutionStart, n)]
                    ELSE <<>>)
    /\ UNCHANGED <<pc, call, result, app>>

(* ------------------- quantities of the generators ---------------------- *)
(* Rates are in ten-thousandths (0.03 is 300), counts are whole numbers,   *)
(* areas are in thousandths of a million hectares and ice extents in       *)
(* thousandths of a million square kilometres.                             *)

\* the values np.random.normal(0, 0.005) may return, in ten-thousandths
GrowthDraws == {n \div 10 : n \in NoiseDraws}

\* the values np.random.normal(0, 0.002) may return, in ten-thousandths
LossDraws == {n \div 25 : n \in NoiseDraws}

\* the values np.random.normal(0, 0.3) and (0, 0.5) may return, in thousandths
IceDraws == {3 * n : n \in NoiseDraws}

base_counts ==
    [r \in RegionSet |->
        IF r = "Africa" THEN 5200 ELSE IF r = "Asia" THEN 7100
        ELSE IF r = "Europe" THEN 2300 ELSE IF r = "North America" THEN 1800
        ELSE IF r = "Oceania" THEN 4100 ELSE 4600]

annual_increase_rates ==
    [r \in RegionSet |->
        IF r = "Africa" THEN 300 ELSE IF r = "Asia" THEN 350
        ELSE IF r = "Europe" THEN 100 ELSE IF r = "North America" THEN 150
        ELSE IF r = "Oceania" THEN 200 ELSE 250]

base_areas ==
    [r \in RegionSet |->
        IF r = "Africa" THEN 2300 ELSE IF r = "Asia" THEN 1800
        ELSE IF r = "Europe" THEN 950 ELSE IF r = "North America" THEN 1900
        ELSE IF r = "Oceania" THEN 800 ELSE 1700]

annual_loss_rates ==
    [r \in RegionSet |->
        IF r = "Africa" THEN 100 ELSE IF r = "Asia" THEN 120
        ELSE IF r = "Europe" THEN 50 ELSE IF r = "North America" THEN 60
        ELSE IF r = "Oceania" THEN 80 ELSE 110]

\* contrast to effective_rate: the rate is not clamped
effective_rate_unclamped(annual_rate, variability) == annual_rate + variability

\* effective_rate = max(0, annual_rate + variability)
effective_rate(annual_rate, variability) == Max(0, annual_rate + variability)

\* factor ** n, factor and result in ten-thousandths, truncated at each step
RECURSIVE compound(_, _)
compound(factor, n) ==
    IF n = 0 THEN 10000 ELSE (compound(factor, n - 1) * factor) \div 10000

\* int(base_count * (1 + effective_rate) ** years_since_2000)
endangered_count(base_count, rate, years_since_2000) ==
    (base_count * compound(10000 + rate, years_since_2000)) \div 10000

\* base_area * (1 - effective_rate) ** years_since_2000, in thousandths
remaining_area(base_area, rate, years_since_2000) ==
    (base_area * compound(10000 - rate, years_since_2000)) \div 10

\* remaining_area * effective_rate, in thousandths
annual_loss_hectares(remaining, rate) == (remaining * rate) \div 10000

\* contrast to ice_arctic_extent: no minimum is applied
ice_arctic_extent_unclamped(years_since_base, variability) ==
    (16000 * (1000 - 13 * years_since_base)) \div 1000 + variability

\* max(16.0 * (1 - 0.013 * years_since_base) + variability, 3.0)
ice_arctic_extent(years_since_base, variability) ==
    Max((16000 * (1000 - 13 * years_since_base)) \div 1000 + variability, 3000)

\* max(20.0 * (1 - 0.005 * years_since_base) + variability, 5.0)
ice_antarctic_extent(years_since_base, variability) ==
    Max((20000 * (1000 - 5 * years_since_base)) \div 1000 + variability, 5000)

\* max(3.0, 16.0 - years_since_1970 * 0.04 + variability)
fallback_arctic_extent(years_since_1970, variability) ==
    Max(3000, 16000 - years_since_1970 * 40 + variability)

\* max(5.0, 20.0 - max(0, (years_since_1970 - 30) * 0.02) + variability)
fallback_antarctic_extent(years_since_1970, variability) ==
    Max(5000, 20000 - Max(0, (years_since_1970 - 30) * 20) + variability)

\* the quantities of a generated row, and those of the row the same loop
\* appended before it (<<>> when there is none or it is not kept)
GenQty(fn, year, key, qty, prev) ==
    [fn |-> fn, year |-> year, key |-> key, ix |-> <<>>, qty |-> qty, prev |-> prev]

\* one pass of the year loop of fetch_iucn_endangered_data for one region:
\* the first year of a region, or the year after the row just appended
GenIucnCount ==
    /\ \E v \in GrowthDraws :
          LET row(region, year, prev) ==
                  LET rate == effective_rate(annual_increase_rates[region], v)
                  IN  GenQty("fetch_iucn_endangered_data", year, region,
                          [effective_rate |-> rate,
                           endangered_species_count |->
                               endangered_count(base_counts[region], rate,
                                                year - BioStartYear)],
                          prev)
          IN  \/ /\ gen = NoRow
                 /\ \E region \in RegionSet : gen' = row(region, BioStartYear, <<>>)
              \/ /\ gen # NoRow
                 /\ gen.fn = "fetch_iucn_endangered_data" /\ gen.ix = <<>>
                 /\ gen.year < Now
                 /\ gen' = row(gen.key, gen.year + 1, gen.qty)
    /\ UNCHANGED <<pc, call, result, app>>

GenHabitatArea ==
    /\ gen = NoRow
    /\ \E region \in RegionSet, year \in BioStartYear..Now, v \in LossDraws :
          LET rate == effective_rate(annual_loss_rates[region], v)
              remaining == remaining_area(base_areas[region], rate, year - BioStartYear)
          IN  gen' = GenQty("fetch_habitat_loss_data", year, region,
                        [effective_rate |-> rate,
                         remaining_habitat_mil_hectares |-> remaining,
                         annual_habitat_loss_mil_hectares |->
                             annual_loss_hectares(remaining, rate)],
                        <<>>)
    /\ UNCHANGED <<pc, call, result, app>>

\* create_fallback_biodiversity_data: the same base values and rates, written
\* out per region
GenFallbackBiodiversityQty ==
    /\ gen = NoRow
    /\ \E region \in RegionSet, year \in BioStartYear..Now,
          v1 \in GrowthDraws, v2 \in LossDraws :
          LET effective_endangered_growth == Max(0, annual_increase_rates[region] + v1)
              effective_habitat_loss == Max(0, annual_loss_rates[region] + v2)
              remaining == remaining_area(base_areas[region], effective_habitat_loss,
                                          year - BioStartYear)
          IN  gen' = GenQty("create_fallback_biodiversity_data", year, region,
                        [effective_endangered_growth |-> effective_endangered_growth,
                         effective_habitat_loss |-> effective_habitat_loss,
                         endangered_species_count |->
                             endangered_count(base_counts[region],
                                 effective_endangered_growth, year - BioStartYear),
                         remaining_habitat_mil_hectares |-> remaining,
                         annual_habitat_loss_mil_hectares |->
                             annual_loss_hectares(remaining, effective_habitat_loss)],
                        <<>>)
    /\ UNCHANGED <<pc, call, result, app>>

\* total is the element-wise sum of the two lists
GenIceRow ==
    /\ gen = NoRow
    /\ \E year \in IceStartYear..Now, v1 \in IceDraws, v2 \in IceDraws :
          LET arctic == ice_arctic_extent(year - IceStartYear, v1)
              antarctic == ice_antarctic_extent(year - IceStartYear, v2)
          IN  gen' = GenQty("fetch_ice_coverage_data", year, "",
                        [arctic_ice_extent_mil_sq_km |-> arctic,
                         antarctic_ice_extent_mil_sq_km |-> antarctic,
                         total_ice_extent_mil_sq_km |-> arctic + antarctic],
                        <<>>)
    /\ UNCHANGED <<pc, call, result, app>>

GenFallbackIceRow ==
    /\ gen = NoRow
    /\ \E year \in (Now - FallbackTempSpan)..Now, v1 \in IceDraws, v2 \in IceDraws :
          LET arctic == fallback_arctic_extent(year - 1970, v1)
              antarctic == fallback_antarctic_extent(year - 1970, v2)
          IN  gen' = GenQty("create_fallback_climate_data", year, "",
                        [arctic_ice_extent_mil_sq_km |-> arctic,
                         antarctic_ice_extent_mil_sq_km |-> antarctic,
                         total_ice_extent_mil_sq_km |-> arctic + antarctic],
                        <<>>)
    /\ UNCHANGED <<pc, call, result, app>>

\* the row is appended to data_rows; the loop goes on (a year loop that keeps
\* its previous row ends with its last year)
GenAppend ==
    /\ gen # NoRow
    /\ (gen.ix = <<>> /\ gen.fn = "fetch_iucn_endangered_data") => gen.year = Now
    /\ gen' = NoRow
    /\ UNCHANGED <<pc, call, result, app>>

NextGen ==
    \/ GenIucnRow
    \/ GenHabitatRow
    \/ GenFallbackBiodiversityRow
    \/ GenForestRow
    \/ GenCoralRow
    \/ GenWetlandRow
    \/ GenSoilRow
    \/ GenFallbackEcosystemRow
    \/ GenPlasticRow
    \/ GenFallbackPollutionRow
    \/ GenIucnCount
    \/ GenHabitatArea
    \/ GenFallbackBiodiversityQty
    \/ GenIceRow
    \/ GenFallbackIceRow
    \/ GenAppend

SpecGen == Init /\ [][NextGen]_vars

(* ------------------------------ the pages ------------------------------ *)
(* One script run is one action: main() reads the sidebar radio and        *)
(* renders the page it names.  Between runs the user selects another radio *)
(* option or presses one of the three buttons of the Overview page.        *)
Pages == <<"Overview", "Climate Indicators", "Biodiversity Metrics",
           "Pollution Levels", "Ecosystem Health", "Global Map View",
           "Community Contributions">>

\* the page each button of the Overview page writes to st.session_state.page
ButtonPage ==
    [climate_button |-> "Climate Indicators",
     biodiversity_button |-> "Biodiversity Metrics",
     map_button |-> "Global Map View"]

OverviewLimit == 10

\* df.groupby('year')[col].sum().reset_index(): one row for each year, years
\* ascending; a sum is written as the sequence of the non-null cells it adds
groupby_year_sum(df, col) ==
    LET ys == AscSeq({df.rows[i].year : i \in DOMAIN df.rows})
        cells(y) == SelectSeq(df.rows, LAMBDA r : r.year = y /\ ~isna(r.v[col]))
    IN  [i \in 1..Len(ys) |->
            [year |-> ys[i],
             sum |-> [j \in 1..Len(cells(ys[i])) |-> cells(ys[i])[j].v[col]]]]

\* the 'Endangered Species' metric of col4: the value shown, and the two
\* operands of the delta
endangered_metric(biodiversity_data) ==
    LET global_endangered == groupby_year_sum(biodiversity_data,
                                              "endangered_species_count")
        latest_endangered == global_endangered[1]
        prev_endangered == IF Len(global_endangered) > 1 THEN global_endangered[2]
                           ELSE latest_endangered
    IN  [latest_endangered |-> latest_endangered,
         prev_endangered |-> prev_endangered]

\* the calls the Overview page makes for col1 and col4
OverviewClimateCalls ==
    {[domain |-> "climate", temp |-> t, sea |-> s, ice |-> i,
      limit |-> IntLimit(OverviewLimit), roll |-> roll] :
        t \in ExtSources, s \in ExtSources, i \in BOOLEAN, roll \in 0..3}

OverviewBiodiversityCalls ==
    {[domain |-> "biodiversity", endangered |-> e, habitat |-> h, species |-> s,
      lexsorted |-> lex, limit |-> IntLimit(OverviewLimit), roll |-> roll] :
        e \in BOOLEAN, h \in BOOLEAN, s \in BOOLEAN, lex \in BOOLEAN, roll \in 0..4}

\* col1 reads temperature_anomaly.iloc[0] and .iloc[1]: IndexError on a
\* table of fewer than two rows
col1_raises(c) == Len(get_climate_data(c).df.rows) < 2

\* col4 reads the column endangered_species_count: KeyError when the table
\* has none
col4_raises(biodiversity_data) ==
    "endangered_species_count" \notin biodiversity_data.columns

\* show_overview_page as far as its metrics and buttons go (col2 and col3
\* test for their columns and rows before they read them); call and result
\* hold biodiversity_data and the source outcomes behind it
show_overview_page ==
    \/ /\ (\E c \in OverviewClimateCalls : col1_raises(c)) = TRUE
       /\ call' = NoCall
       /\ result' = NoResult
       /\ app' = [app EXCEPT !.run = "done", !.shown = "exception"]
    \/ /\ (\E c \in OverviewClimateCalls : ~col1_raises(c)) = TRUE
       /\ \E c \in OverviewBiodiversityCalls :
             /\ call' = c
             /\ result' = get_biodiversity_data(c)
       /\ IF col4_raises(result'.df)
          THEN app' = [app EXCEPT !.run = "done", !.shown = "exception"]
          ELSE app' = [app EXCEPT !.run = "done", !.shown = "Overview",
                                  !.headline = endangered_metric(result'.df)]

\* one run of the script: the page is the value of the radio widget
main ==
    /\ app.run = "pending"
    /\ LET page == app.radio
       IN  IF page = "Overview" THEN show_overview_page
           ELSE /\ app' = [app EXCEPT !.run = "done", !.shown = page]
                /\ UNCHANGED <<call, result>>
    /\ UNCHANGED <<pc, gen>>

\* the user selects another option of the sidebar radio: the widget keeps the
\* new value and the script is run again
SelectPage ==
    /\ app.run = "done"
    /\ \E i \in DOMAIN Pages :
          /\ Pages[i] # app.radio
          /\ app' = [app EXCEPT !.radio = Pages[i], !.run = "pending",
                                !.cause = "radio", !.shown = "", !.headline = <<>>]
    /\ call' = NoCall
    /\ result' = NoResult
    /\ UNCHANGED <<pc, gen>>

\* the user presses a button of the rendered Overview page: the run it starts
\* reaches the button, writes st.session_state.page and calls st.rerun()
PressButton ==
    /\ app.run = "done" /\ app.shown = "Overview"
    /\ \E b \in DOMAIN ButtonPage :
          app' = [app EXCEPT !.session_state_page = ButtonPage[b],
                             !.run = "pending", !.cause = b, !.shown = "",
                             !.headline = <<>>]
    /\ call' = NoCall
    /\ result' = NoResult
    /\ UNCHANGED <<pc, gen>>

NextApp ==
    \/ main
    \/ SelectPage
    \/ PressButton

SpecApp == Init /\ [][NextApp]_vars

(* ------------------------- reading a returned table -------------------- *)
\* get_<domain>_data for the inputs of call c
get_data(c) ==
    IF c.domain = "climate" THEN get_climate_data(c)
    ELSE IF c.domain = "pollution" THEN get_pollution_data(c)
    ELSE IF c.domain = "biodiversity" THEN get_biodiversity_data(c)
    ELSE get_ecosystem_data(c)

Returned == pc = "returned"

\* a call has returned a table (it did not raise)
Table == Returned /\ ~result.raised

rows == result.df.rows

\* a < b in Python's str order, for the dimension names
StrLess(a, b) ==
    \E i, j \in DOMAIN Alphabetical :
        Alphabetical[i] = a /\ Alphabetical[j] = b /\ i < j

\* the source tables that the primary path of call c joins to its base table
JoinedSources(c) ==
    IF c.domain = "climate"
    THEN (IF c.sea.ok THEN {fetch_noaa_sea_level_data(c.sea)} ELSE {})
         \cup (IF c.ice THEN {fetch_ice_coverage_data(ClockAt(c, 2))} ELSE {})
    ELSE IF c.domain = "pollution"
    THEN (IF (c.co2 \/ c.air) /\ c.plastic
          THEN {fetch_plastic_pollution_data(ClockAt(c, 3))} ELSE {})
         \cup (IF c.co2 /\ c.air THEN {fetch_air_pollution_data(ClockAt(c, 2))} ELSE {})
    ELSE IF c.domain = "biodiversity" /\ c.endangered /\ c.habitat
    THEN {fetch_iucn_endangered_data(ClockAt(c, 1)),
          fetch_habitat_loss_data(ClockAt(c, 2))}
         \cup (IF c.species THEN {fetch_gbif_species_data(ClockAt(c, 3))} ELSE {})
    ELSE {}

YearsOf(df) == {df.rows[i].year : i \in DOMAIN df.rows}

\* column col of row r holds a value (the column exists and the cell is not null)
Holds(r, col) == col \in DOMAIN r.v /\ ~isna(r.v[col])

(* ------------------------------- claims -------------------------------- *)
\* C1: with an integer limit N >= 0 the call returns exactly min(N, total_rows)
\* rows, and they are the first rows of the table the same call (same sources,
\* same clock) returns without a limit.
C1_LimitIsHeadOfUnlimited ==
    (Returned /\ call.limit.kind = "int" /\ call.limit.n >= 0) =>
        LET full == get_data([call EXCEPT !.limit = NoLimit])
        IN  /\ ~result.raised /\ ~full.raised
            /\ Len(rows) = Min(call.limit.n, Len(full.df.rows))
            /\ rows = SubSeq(full.df.rows, 1, Len(rows))

\* a limit that cut a longer table took effect
C1_Witness ==
    /\ Table /\ call.limit.kind = "int" /\ call.limit.n = MaxLimit
    /\ Len(rows) = MaxLimit
    /\ Len(get_data([call EXCEPT !.limit = NoLimit]).df.rows) > MaxLimit

\* C2: every returned table is sorted by year descending and, among rows of
\* one year, by the dimension ascending.
C2_Sorted ==
    Table => \A i \in 1..(Len(rows) - 1) :
        \/ rows[i].year > rows[i + 1].year
        \/ /\ rows[i].year = rows[i + 1].year
           /\ (rows[i].key = rows[i + 1].key \/ StrLess(rows[i].key, rows[i + 1].key))

\* a full ecosystem table: several types per year, several years
C2_Witness ==
    /\ Table /\ call.domain = "ecosystem" /\ call.limit = NoLimit
    /\ \E i, j \in DOMAIN rows :
          rows[i].year = rows[j].year /\ StrLess(rows[i].key, rows[j].key)
    /\ \E i, j \in DOMAIN rows : rows[i].year > rows[j].year

\* C3: get_<domain>_data never raises, whatever the limit and whichever
\* sources fail.
C3_NeverRaises == Returned => ~result.raised

\* C4: every returned table has at least one row, for every integer limit
\* (or none) and every combination of source failures.
C4_NonEmpty == (Table /\ call.limit.kind # "other") => Len(rows) >= 1

\* C5: in climate, pollution and biodiversity tables, a column of a joined
\* source is null in every row whose year is before the source's first year.
C5_NullBeforeFirstYear ==
    (Table /\ call.domain \in {"climate", "pollution", "biodiversity"}) =>
        \A src \in JoinedSources(call) : \A col \in src.columns :
            \A i \in DOMAIN rows :
                (\A y \in YearsOf(src) : rows[i].year < y) => ~Holds(rows[i], col)

\* C6: forward fill runs in ascending year order: where the joined source has
\* a year at or before the row's year, the cell holds the value of the nearest
\* such year (never a later year's value, and never null).
C6_FilledFromNearestEarlierYear ==
    (Table /\ call.domain \in {"climate", "pollution", "biodiversity"}) =>
        \A src \in JoinedSources(call) : \A col \in src.columns :
            \A i \in DOMAIN rows :
                LET earlier == {y \in YearsOf(src) : y <= rows[i].year}
                IN  earlier # {} =>
                        /\ Holds(rows[i], col)
                        /\ rows[i].v[col].y \in earlier
                        /\ \A y \in earlier : y <= rows[i].v[col].y

\* the tags of a row's pollutant_category
Category(r) == r.v["pollutant_category"].cat

HasTag(r, tag) == \E i \in DOMAIN Category(r) : Category(r)[i] = tag

\* C7: in every pollution table, a row of a year before 1990 has null
\* pm25_level, ozone_level and ocean_plastic_mil_tons, and its category holds
\* neither 'Water Pollutants' nor 'Soil Pollutants'.
C7_Before1990 ==
    (Table /\ call.domain = "pollution") =>
        \A i \in DOMAIN rows : rows[i].year < 1990 =>
            /\ ~Holds(rows[i], "pm25_level")
            /\ ~Holds(rows[i], "ozone_level")
            /\ ~Holds(rows[i], "ocean_plastic_mil_tons")
            /\ ~HasTag(rows[i], "Water Pollutants")
            /\ ~HasTag(rows[i], "Soil Pollutants")

\* the primary table of all three sources holds rows before 1990 tagged as
\* air pollutants only, and rows from 1990 on that hold the joined values
C7_Witness ==
    /\ Table /\ call.domain = "pollution"
    /\ call.co2 /\ call.air /\ call.plastic
    /\ \E i \in DOMAIN rows :
          rows[i].year < 1990 /\ Category(rows[i]) = <<"Air Pollutants">>
    /\ \E i \in DOMAIN rows :
          /\ rows[i].year >= 1990
          /\ Holds(rows[i], "pm25_level") /\ Holds(rows[i], "ocean_plastic_mil_tons")

\* C8: no two rows of a biodiversity table share (year, region) and no two
\* rows of an ecosystem table share (year, ecosystem_type).
C8_UniqueYearDimension ==
    (Table /\ call.domain \in {"biodiversity", "ecosystem"}) =>
        \A i, j \in DOMAIN rows : i < j => KeyOf(rows[i]) # KeyOf(rows[j])

\* the outer join of both regional sources, all regions of several years
C8_Witness ==
    /\ Table /\ call.domain = "biodiversity"
    /\ call.endangered /\ call.habitat /\ call.limit = NoLimit
    /\ Len(rows) > Len(regions)
    /\ \E i \in DOMAIN rows :
          Holds(rows[i], "endangered_species_count")
          /\ Holds(rows[i], "remaining_habitat_mil_hectares")

\* C9: every climate and pollution table has at most one row per year,
\* whatever the external sources deliver.
C9_OneRowPerYear ==
    (Table /\ call.domain \in {"climate", "pollution"}) =>
        \A i, j \in DOMAIN rows : i < j => rows[i].year # rows[j].year

\* C10: for every noise draw and every generated year, each index field
\* (conservation_status_index, habitat_fragmentation_index, health_index,
\* desertification_risk_index, chemical_pollution_index) lies in [0, 100], in
\* the primary and in the fallback generators.
C10_IndexWithinRange ==
    gen # NoRow => \A f \in DOMAIN gen.ix : 0 <= gen.ix[f] /\ gen.ix[f] <= 10000

(* ------------------- source outcomes and fallback tables --------------- *)
\* the call c with every source succeeding (ok) or every source failing
WithAllSources(c, ok) ==
    LET ext == [ok |-> ok, years |-> IF ok THEN <<Now>> ELSE <<>>]
    IN  IF c.domain = "climate"
        THEN [c EXCEPT !.temp = ext, !.sea = ext, !.ice = ok]
        ELSE IF c.domain = "pollution"
        THEN [c EXCEPT !.co2 = ok, !.air = ok, !.plastic = ok]
        ELSE IF c.domain = "biodiversity"
        THEN [c EXCEPT !.endangered = ok, !.habitat = ok, !.species = ok]
        ELSE [c EXCEPT !.forest = ok, !.coral = ok, !.wetland = ok, !.soil = ok]

\* every source of call c failed
AllSourcesFailed(c) ==
    IF c.domain = "climate" THEN ~c.temp.ok /\ ~c.sea.ok /\ ~c.ice
    ELSE IF c.domain = "pollution" THEN ~c.co2 /\ ~c.air /\ ~c.plastic
    ELSE IF c.domain = "biodiversity" THEN ~c.endangered /\ ~c.habitat /\ ~c.species
    ELSE ~c.forest /\ ~c.coral /\ ~c.wetland /\ ~c.soil

\* the outcome of the try block of get_<domain>_data
try_data(c) ==
    IF c.domain = "climate" THEN climate_try(c)
    ELSE IF c.domain = "pollution" THEN pollution_try(c)
    ELSE IF c.domain = "biodiversity" THEN biodiversity_try(c)
    ELSE ecosystem_try(c)

\* create_fallback_<domain>_data(limit), called after the sources were read
fallback_data(c) ==
    IF c.domain = "climate" THEN create_fallback_climate_data(c.limit, ClockAt(c, 3))
    ELSE IF c.domain = "pollution"
    THEN create_fallback_pollution_data(c.limit, ClockAt(c, 4))
    ELSE IF c.domain = "biodiversity"
    THEN create_fallback_biodiversity_data(c.limit, ClockAt(c, 4))
    ELSE create_fallback_ecosystem_data(c.limit, ClockAt(c, 5))

\* C11: the table returned when every source of a domain fails has exactly
\* the column set of the table returned when every source succeeds (the
\* biodiversity one with the three species-discovery columns).
C11_FallbackSchema ==
    (Table /\ AllSourcesFailed(call)) =>
        result.df.columns = get_data(WithAllSources(call, TRUE)).df.columns

Reads(c) ==
    IF c.domain = "climate" THEN 3
    ELSE IF c.domain = "ecosystem" THEN 5
    ELSE 4

\* the year the clock shows when the call returns is at least this one
YearAtReturn(c) == ClockAt(c, Reads(c))

\* C13: every row of a pollution table has 1960 <= year <= current year, of
\* a biodiversity table 2000 <= year <= current year, of an ecosystem table
\* 1990 <= year <= current year, on the primary and on the fallback path.
C13_YearRange ==
    (Table /\ call.domain \in {"pollution", "biodiversity", "ecosystem"}) =>
        LET first == IF call.domain = "pollution" THEN 1960
                     ELSE IF call.domain = "biodiversity" THEN 2000
                     ELSE 1990
        IN  \A i \in DOMAIN rows :
                first <= rows[i].year /\ rows[i].year <= YearAtReturn(call)

\* a whole primary biodiversity table, from its first year to the current one
C13_Witness ==
    /\ Table /\ call.domain = "biodiversity" /\ call.endangered
    /\ call.limit = NoLimit
    /\ \E i \in DOMAIN rows : rows[i].year = 2000
    /\ \E i \in DOMAIN rows : rows[i].year = YearAtReturn(call)

EcosystemTypes == {"Forests", "Coral Reefs", "Wetlands", "Grasslands"}

\* rs holds exactly one row for each pair of a year of first..cy and a key of keys
OneRowPerPair(rs, first, cy, keys) ==
    /\ Len(rs) = Cardinality(keys) * (cy - first + 1)
    /\ \A y \in first..cy : \A k \in keys : \E i \in DOMAIN rs : KeyOf(rs[i]) = <<y, k>>

\* C14: without a limit and with all sources succeeding, a biodiversity table
\* holds exactly one row per (year, region) for 2000..current year and the 6
\* regions, and an ecosystem table exactly one row per (year, ecosystem_type)
\* for 1990..current year and the 4 types (the current year being a year the
\* clock showed to the call).
C14_FullCrossProduct ==
    /\ (Table /\ call.domain = "biodiversity" /\ call.limit = NoLimit
            /\ call.endangered /\ call.habitat /\ call.species) =>
            \E cy \in {ClockAt(call, i) : i \in 1..3} :
                OneRowPerPair(rows, 2000, cy, RegionSet)
    /\ (Table /\ call.domain = "ecosystem" /\ call.limit = NoLimit
            /\ call.forest /\ call.coral /\ call.wetland /\ call.soil) =>
            \E cy \in {ClockAt(call, i) : i \in 1..4} :
                OneRowPerPair(rows, 1990, cy, EcosystemTypes)

\* the full biodiversity table of a call during which the year did not change
C14_Witness ==
    /\ Table /\ call.domain = "biodiversity" /\ call.limit = NoLimit
    /\ call.endangered /\ call.habitat /\ call.species /\ call.roll = 4
    /\ Len(rows) = 6 * (Now - 2000 + 1)
    /\ \A i \in DOMAIN rows : Holds(rows[i], "new_species_discovered")

PrimaryPollution == Table /\ call.domain = "pollution"
                        /\ (call.co2 \/ call.air \/ call.plastic)

\* C16: in every row of a primary pollution table, pollutant_category is, in
\* the order Air, Water, Soil: 'Air Pollutants' once iff one of co2_level,
\* methane_level, nitrous_oxide_level, pm25_level, ozone_level is non-null,
\* 'Water Pollutants' iff ocean_plastic_mil_tons or microplastic_concentration
\* is non-null, 'Soil Pollutants' iff chemical_pollution_index is non-null;
\* and 'Unclassified' alone iff none of these fields is non-null.
C16_Categories ==
    PrimaryPollution => \A i \in DOMAIN rows :
        LET r == rows[i]
            air == \E c \in {"co2_level", "methane_level", "nitrous_oxide_level",
                            "pm25_level", "ozone_level"} : Holds(r, c)
            water == Holds(r, "ocean_plastic_mil_tons")
                     \/ Holds(r, "microplastic_concentration")
            soil == Holds(r, "chemical_pollution_index")
            tags == (IF air THEN <<"Air Pollutants">> ELSE <<>>)
                    \o (IF water THEN <<"Water Pollutants">> ELSE <<>>)
                    \o (IF soil THEN <<"Soil Pollutants">> ELSE <<>>)
        IN  Category(r) = IF tags = <<>> THEN <<"Unclassified">> ELSE tags

\* a primary table on the CO2 base: a row where both air tests succeed and all
\* three tags are set, and an earlier row with the air tag alone
C16_Witness ==
    /\ PrimaryPollution /\ call.co2 /\ call.air /\ call.plastic
    /\ \E i \in DOMAIN rows :
          /\ Holds(rows[i], "co2_level") /\ Holds(rows[i], "ozone_level")
          /\ Category(rows[i]) =
                <<"Air Pollutants", "Water Pollutants", "Soil Pollutants">>
    /\ \E i \in DOMAIN rows :
          /\ ~Holds(rows[i], "ozone_level") /\ ~Holds(rows[i], "chemical_pollution_index")
          /\ Category(rows[i]) = <<"Air Pollutants">>

\* C17: a pollution table is the fallback table only when all three sources
\* failed; otherwise it is built on the first available of CO2, air, plastic
\* (one row per year of that source, holding that source's values of the
\* year) and has the columns of every available source.
C17_FallbackOnlyWhenAllFail ==
    (Table /\ call.domain = "pollution") =>
        LET any == call.co2 \/ call.air \/ call.plastic
            avail == (IF call.co2 THEN Co2Cols ELSE {})
                     \cup (IF call.air THEN AirCols ELSE {})
                     \cup (IF call.plastic THEN PlasticCols ELSE {})
            base == IF call.co2 THEN "fetch_co2_data"
                    ELSE IF call.air THEN "fetch_air_pollution_data"
                    ELSE "fetch_plastic_pollution_data"
            baseCols == IF call.co2 THEN Co2Cols
                        ELSE IF call.air THEN AirCols ELSE PlasticCols
            first == IF call.co2 THEN 1960 ELSE 1990
            last == ClockAt(call, IF call.co2 THEN 1 ELSE IF call.air THEN 2 ELSE 3)
        IN  /\ \A i \in DOMAIN rows :
                  \A c \in DOMAIN rows[i].v \ {"pollutant_category"} :
                      Holds(rows[i], c) =>
                          (rows[i].v[c].gen = "create_fallback_pollution_data" <=> ~any)
            /\ any =>
                  /\ result.df.columns = avail \cup {"pollutant_category"}
                  /\ \A i \in DOMAIN rows : \A c \in baseCols :
                        rows[i].v[c] = Val(base, c, rows[i].year, "", 0)
                  /\ call.limit = NoLimit =>
                        /\ YearsOf(result.df) = first..last
                        /\ Len(rows) = last - first + 1

\* the CO2 source failed: the table stands on the air source, with the plastic
\* columns joined
C17_Witness ==
    /\ PrimaryPollution /\ ~call.co2 /\ call.air /\ call.plastic
    /\ call.limit = NoLimit
    /\ \E i \in DOMAIN rows :
          /\ rows[i].year = 1990
          /\ Holds(rows[i], "pm25_level") /\ Holds(rows[i], "ocean_plastic_mil_tons")

\* C18: when the species-discovery source and at least one of the
\* endangered-species and habitat sources succeed, the biodiversity table
\* holds the three species-discovery columns (also when exactly one of the
\* two regional sources failed).
C18_SpeciesColumns ==
    (Table /\ call.domain = "biodiversity" /\ call.species
        /\ (call.endangered \/ call.habitat)) =>
        SpeciesCols \subseteq result.df.columns

\* the columns of the returned table that only the ecosystem source of the
\* given type fills
OwnEcoCols(fields) ==
    DOMAIN fields \ {"area_mil_hectares", "annual_change_percent", "health_index"}

\* the columns of the auxiliary sources of call c that failed while the base
\* source succeeded (no base succeeded: the empty set)
FailedAuxCols(c) ==
    IF c.domain = "climate"
    THEN (IF ~c.sea.ok THEN SeaCols ELSE {}) \cup (IF ~c.ice THEN IceCols ELSE {})
    ELSE IF c.domain = "pollution"
    THEN IF c.co2
         THEN (IF ~c.air THEN AirCols ELSE {})
              \cup (IF ~c.plastic THEN PlasticCols ELSE {})
         ELSE IF c.air /\ ~c.plastic THEN PlasticCols ELSE {}
    ELSE IF c.domain = "biodiversity"
    THEN IF c.endangered /\ c.habitat
         THEN (IF ~c.species THEN SpeciesCols ELSE {})
         ELSE IF c.endangered
         THEN HabitatCols \cup (IF ~c.species THEN SpeciesCols ELSE {})
         ELSE {}
    ELSE IF c.forest
    THEN (IF ~c.coral THEN OwnEcoCols(EcoFields.CoralReefs) ELSE {})
         \cup (IF ~c.wetland THEN OwnEcoCols(EcoFields.Wetlands) ELSE {})
         \cup (IF ~c.soil THEN OwnEcoCols(EcoFields.Grasslands) ELSE {})
    ELSE {}

\* C19: when an auxiliary source fails while the base source succeeds, the
\* call returns a table (with an integer or no limit) and no column of the
\* failed source is in it, in all four domains.
C19_FailedSourceColumnsAbsent ==
    (Returned /\ call.limit.kind # "other" /\ FailedAuxCols(call) # {}) =>
        /\ ~result.raised
        /\ FailedAuxCols(call) \cap result.df.columns = {}

\* C20: when the temperature fetch fails, the climate table stands on the
\* fallback temperature series of the 50 years current_year-49..current_year,
\* and its sea-level and ice columns are those of the sea-level and ice
\* sources that succeeded, with the values these sources produced (none from
\* create_fallback_climate_data).
C20_TemperatureFallbackOnly ==
    (Table /\ call.domain = "climate" /\ ~call.temp.ok) =>
        LET cy == ClockAt(call, 1)
            from(c) == IF c \in TempCols THEN "create_fallback_temperature_data"
                       ELSE IF c \in SeaCols THEN "fetch_noaa_sea_level_data"
                       ELSE "fetch_ice_coverage_data"
        IN  /\ result.df.columns =
                  TempCols \cup (IF call.sea.ok THEN SeaCols ELSE {})
                           \cup (IF call.ice THEN IceCols ELSE {})
            /\ \A i \in DOMAIN rows :
                  /\ rows[i].year \in (cy - 49)..cy
                  /\ rows[i].v["temperature_anomaly"] =
                        Val("create_fallback_temperature_data", "temperature_anomaly",
                            rows[i].year, "", 0)
                  /\ \A c \in DOMAIN rows[i].v :
                        Holds(rows[i], c) => rows[i].v[c].gen = from(c)
            /\ call.limit = NoLimit => YearsOf(result.df) = (cy - 49)..cy

\* the temperature fetch failed, the sea-level file and the ice source did not
C20_Witness ==
    /\ Table /\ call.domain = "climate" /\ ~call.temp.ok
    /\ call.sea.ok /\ call.ice /\ call.limit = NoLimit
    /\ \E i \in DOMAIN rows :
          /\ Holds(rows[i], "sea_level_rise_mm")
          /\ rows[i].v["sea_level_rise_mm"].gen = "fetch_noaa_sea_level_data"
          /\ Holds(rows[i], "total_ice_extent_mil_sq_km")
    /\ Cardinality(YearsOf(result.df)) = 50

\* C21: in a primary biodiversity table built from all three sources, every
\* row holds in the three species-discovery columns the values of the species
\* source's row of the same year (so all region rows of a year hold the same).
C21_SpeciesBroadcastByYear ==
    (Table /\ call.domain = "biodiversity"
        /\ call.endangered /\ call.habitat /\ call.species) =>
        /\ SpeciesCols \subseteq result.df.columns
        /\ \A i \in DOMAIN rows : \A c \in SpeciesCols :
              rows[i].v[c] = Val("fetch_gbif_species_data", c, rows[i].year, "", 0)

\* two rows of one year and different regions hold the year's species values
C21_Witness ==
    /\ Table /\ call.domain = "biodiversity" /\ call.limit = NoLimit
    /\ call.endangered /\ call.habitat /\ call.species /\ ~call.lexsorted
    /\ \E i, j \in DOMAIN rows :
          /\ rows[i].year = rows[j].year /\ rows[i].key # rows[j].key
          /\ Holds(rows[i], "cumulative_known_species")
          /\ rows[i].v["cumulative_known_species"] = rows[j].v["cumulative_known_species"]

\* the rows of ecosystem type k and year y
RowsOf(rs, y, k) == SelectSeq(rs, LAMBDA r : r.year = y /\ r.key = k)

\* C22: the forest source is the base of get_ecosystem_data.  When it fails
\* the table is that of create_fallback_ecosystem_data, whatever the other
\* sources did; when it succeeds the (unlimited) table holds the years of the
\* forest source, one 'Forests' row for each, and a row of another type for a
\* year exactly when that type's source succeeded (its years cover the forest
\* years).
C22_ForestIsBase ==
    (Table /\ call.domain = "ecosystem") =>
        /\ ~call.forest => result = fallback_data(call)
        /\ (call.forest /\ call.limit = NoLimit) =>
              LET ok == [t \in EcosystemTypes |->
                            IF t = "Forests" THEN TRUE
                            ELSE IF t = "Coral Reefs" THEN call.coral
                            ELSE IF t = "Wetlands" THEN call.wetland
                            ELSE call.soil]
                  from == [t \in EcosystemTypes |->
                            IF t = "Forests" THEN "fetch_forest_coverage_data"
                            ELSE IF t = "Coral Reefs" THEN "fetch_coral_reef_data"
                            ELSE IF t = "Wetlands" THEN "fetch_wetland_data"
                            ELSE "fetch_soil_health_data"]
              IN  /\ YearsOf(result.df) = 1990..ClockAt(call, 1)
                  /\ \A y \in 1990..ClockAt(call, 1) : \A t \in EcosystemTypes :
                        LET rs == RowsOf(rows, y, t)
                        IN  /\ Len(rs) = IF ok[t] THEN 1 ELSE 0
                            /\ ok[t] => rs[1].v["health_index"].gen = from[t]

\* the forest and the wetland sources succeeded, the coral and soil ones failed
C22_Witness ==
    /\ Table /\ call.domain = "ecosystem" /\ call.limit = NoLimit
    /\ call.forest /\ ~call.coral /\ call.wetland /\ ~call.soil
    /\ \E i, j \in DOMAIN rows :
          /\ rows[i].year = rows[j].year
          /\ rows[i].key = "Forests" /\ rows[j].key = "Wetlands"
    /\ \A i \in DOMAIN rows : rows[i].key \in {"Forests", "Wetlands"}

\* C25: in every table returned by get_biodiversity_data, each regional
\* measurement held in the row (year, region) was generated for that region,
\* also when the sources read different current years.
C25_NoCrossRegionFill ==
    (Returned /\ call.domain = "biodiversity") =>
        \A i \in DOMAIN rows : \A c \in EndangeredCols \cup HabitatCols :
            Holds(rows[i], c) => rows[i].v[c].k = rows[i].key

\* the fields of the rows of each ecosystem type
FieldsOfType ==
    [t \in EcosystemTypes |->
        IF t = "Forests" THEN EcoFields.Forests
        ELSE IF t = "Coral Reefs" THEN EcoFields.CoralReefs
        ELSE IF t = "Wetlands" THEN EcoFields.Wetlands
        ELSE EcoFields.Grasslands]

\* C27: get_ecosystem_data applies no forward fill.  In every returned table
\* (primary and fallback) a type-specific column is non-null exactly in the
\* rows of its own ecosystem type, wetland_area_mil_hectares equals
\* area_mil_hectares in the 'Wetlands' rows, and area_mil_hectares,
\* annual_change_percent and health_index are non-null in every row, whose
\* ecosystem_type is one of the four types.
C27_NoFillAcrossTypes ==
    (Returned /\ call.domain = "ecosystem") =>
        \A i \in DOMAIN rows :
            /\ rows[i].key \in EcosystemTypes
            /\ \A c \in EcoCols :
                  Holds(rows[i], c) <=> c \in DOMAIN FieldsOfType[rows[i].key]
            /\ rows[i].key = "Wetlands" =>
                  rows[i].v["wetland_area_mil_hectares"] = rows[i].v["area_mil_hectares"]

\* a primary table with a 'Wetlands' row below a 'Forests' row of its year
C27_Witness ==
    /\ Table /\ call.domain = "ecosystem" /\ call.forest /\ call.wetland
    /\ \E i \in DOMAIN rows :
          /\ i > 1 /\ rows[i].key = "Wetlands"
          /\ rows[i - 1].key = "Forests" /\ rows[i - 1].year = rows[i].year
          /\ Holds(rows[i], "wetland_area_mil_hectares")
          /\ Holds(rows[i - 1], "forest_coverage_percent")

\* C28: no row of a table returned by get_pollution_data is categorised
\* 'Unclassified', and 'Soil Pollutants' is in a row's category only together
\* with 'Water Pollutants'.
C28_NeverUnclassified ==
    (Returned /\ call.domain = "pollution") =>
        \A i \in DOMAIN rows :
            /\ ~HasTag(rows[i], "Unclassified")
            /\ Category(rows[i]) # <<>>
            /\ HasTag(rows[i], "Soil Pollutants") => HasTag(rows[i], "Water Pollutants")

\* the air source is the base and its rows are categorised by the PM2.5 /
\* ozone test alone
C28_Witness ==
    /\ Table /\ call.domain = "pollution" /\ ~call.co2 /\ call.air /\ ~call.plastic
    /\ rows # <<>>
    /\ \A i \in DOMAIN rows : Category(rows[i]) = <<"Air Pollutants">>

\* the generated row holds quantities (not index fields)
HasQty == gen # NoRow /\ gen.ix = <<>> /\ "qty" \in DOMAIN gen

\* C23: in the biodiversity generators (primary and fallback) the effective
\* rate is never negative, whatever the noise draw, endangered_species_count is
\* at least the region's base count, remaining_habitat_mil_hectares is at most
\* the region's base area and annual_habitat_loss_mil_hectares is not negative.
C23_ClampedRates ==
    (HasQty /\ gen.key \in RegionSet) =>
        LET q == gen.qty
        IN  /\ \A f \in DOMAIN q \cap {"effective_rate", "effective_endangered_growth",
                                       "effective_habitat_loss"} : q[f] >= 0
            /\ "endangered_species_count" \in DOMAIN q =>
                  q.endangered_species_count >= base_counts[gen.key]
            /\ "remaining_habitat_mil_hectares" \in DOMAIN q =>
                  /\ q.remaining_habitat_mil_hectares <= base_areas[gen.key] * 1000
                  /\ q.annual_habitat_loss_mil_hectares >= 0

\* a draw below minus the annual rate: the rate is clamped to 0 and the count
\* of a later year is the base count
C23_Witness ==
    /\ HasQty /\ gen.fn = "fetch_iucn_endangered_data" /\ gen.year > BioStartYear
    /\ gen.qty.effective_rate = 0
    /\ gen.qty.endangered_species_count = base_counts[gen.key]
    /\ gen.prev # <<>> /\ gen.prev.effective_rate > annual_increase_rates[gen.key]

\* C24: within the year loop of a region, the endangered_species_count of a
\* year is at least that of the year before, for every sequence of noise draws.
C24_CountNonDecreasing ==
    (HasQty /\ gen.fn = "fetch_iucn_endangered_data" /\ gen.prev # <<>>) =>
        gen.qty.endangered_species_count >= gen.prev.endangered_species_count

\* get_climate_data and the ice loops behind its tables: a call is made while
\* no generated row is pending, a row is generated while no call is pending
NextClimateIce ==
    \/ gen = NoRow /\ CallClimate
    \/ gen = NoRow /\ Return
    \/ pc = "idle" /\ GenIceRow
    \/ pc = "idle" /\ GenFallbackIceRow
    \/ pc = "idle" /\ GenAppend

SpecClimateIce == Init /\ [][NextClimateIce]_vars

\* C26: in every row of a table returned by get_climate_data the three ice
\* columns are null (or absent) together, and where they hold values these
\* are the three values of one generated ice row (also after the forward
\* fill); in every generated ice row, primary or fallback, the total is the
\* arctic plus the antarctic extent, the arctic extent is at least 3.0 and the
\* antarctic extent at least 5.0.
C26_IceTotalAndMinimums ==
    /\ (Returned /\ call.domain = "climate") =>
          \A i \in DOMAIN rows :
              \/ \A c \in IceCols : ~Holds(rows[i], c)
              \/ /\ \A c \in IceCols : Holds(rows[i], c) /\ rows[i].v[c].col = c
                 /\ \A c, d \in IceCols :
                       /\ rows[i].v[c].gen = rows[i].v[d].gen
                       /\ rows[i].v[c].y = rows[i].v[d].y
                       /\ rows[i].v[c].n = rows[i].v[d].n
                 /\ rows[i].v["total_ice_extent_mil_sq_km"].gen \in
                       {"fetch_ice_coverage_data", "create_fallback_climate_data"}
    /\ (HasQty /\ "total_ice_extent_mil_sq_km" \in DOMAIN gen.qty) =>
          LET q == gen.qty
          IN  /\ q.total_ice_extent_mil_sq_km =
                    q.arctic_ice_extent_mil_sq_km + q.antarctic_ice_extent_mil_sq_km
              /\ q.arctic_ice_extent_mil_sq_km >= 3000
              /\ q.antarctic_ice_extent_mil_sq_km >= 5000

\* a primary table with a row whose three ice values were forward-filled
\* from the row of another year
C26_Witness ==
    /\ Table /\ call.domain = "climate" /\ call.ice
    /\ \E i \in DOMAIN rows :
          /\ \A c \in IceCols : Holds(rows[i], c)
          /\ rows[i].v["total_ice_extent_mil_sq_km"].y # rows[i].year
          /\ rows[i].v["arctic_ice_extent_mil_sq_km"].y # rows[i].year

\* the page of the last finished run was rendered without an exception
Rendered == app.run = "done" /\ app.shown # "exception"

\* C29: the 'Endangered Species' headline of a rendered Overview page is the
\* sum of endangered_species_count over the six regions for the most recent
\* year of the biodiversity data, and the delta is that sum minus the sum of
\* the year before.
C29_HeadlineIsLatestYearSum ==
    (Rendered /\ app.shown = "Overview") =>
        LET full == get_biodiversity_data([call EXCEPT !.limit = NoLimit]).df
            sums == groupby_year_sum(full, "endangered_species_count")
            n == Len(sums)
        IN  /\ app.headline.latest_endangered = sums[n]
            /\ Len(sums[n].sum) = Len(regions)
            /\ app.headline.prev_endangered = sums[n - 1]

\* C30: when a run started by one of the three buttons of the Overview page
\* has rendered a page, it is the page the button wrote to
\* st.session_state.page.
C30_ButtonOpensItsPage ==
    (Rendered /\ app.cause \in DOMAIN ButtonPage) =>
        app.shown = ButtonPage[app.cause]

====
